---- MODULE Spec2Model ----
(***************************************************************************)
(* Model of the EPUB-to-audiobook pipeline of src/main.py: AudioHelper,    *)
(* Chapter, TTS, AudioBookGenerator and the command-line entry point.      *)
(*                                                                         *)
(* Raw audio bytes are modelled as a sequence of runs [src, frames]: a run *)
(* of `frames` 16-bit mono samples whose content comes from `src`, which   *)
(* is <<chapter id, k>> for synthesized speech (k = 0 the title, k >= 1    *)
(* the k-th paragraph) or SILENCE.  Raw bytes carry no sample rate: the    *)
(* rate is the one of the AudioSegment that wraps them.                    *)
(*                                                                         *)
(* Times (Chapter.start_time, Chapter.end_time, the running `time`) are    *)
(* milliseconds in the code, computed in floating point as                 *)
(* duration_seconds * 1000.  At 24000 Hz one sample lasts 1/24 ms, so the  *)
(* model keeps every time multiplied by TICKS_PER_MS = 24 ("ticks"), which *)
(* keeps them exact integers.  Ms(x) converts milliseconds to ticks.       *)
(***************************************************************************)
EXTENDS Integers, Sequences, FiniteSets, TLC

\* ------------------------------------------------------------------ bounds
MaxChapters == 2
MaxParagraphs == 2
MaxFailures == 1
MaxItems == 3

\* --------------------------------------------------------------- constants
PARAGRAPH_PAUSE_DURATION == 500
CHAPTER_TITLE_PAUSE_DURATION == 900
CHAPTER_PAUSE_DURATION == 2000
\* frame rate of AudioSegment.silent(t) when none is passed (generate_pause)
SILENT_FRAME_RATE == 11025
\* frame rate bytes2audio reads raw bytes at
FRAME_RATE == 24000
\* duration of the audio the TTS service (or test stub) returns for one text
TTS_AUDIO_MS == 1000

TICKS_PER_MS == FRAME_RATE \div 1000
Ms(x) == x * TICKS_PER_MS

None == -1
SILENCE == <<-1, -1>>
PADDING == <<-2, -2>>

\* ------------------------------------------------------------- raw bytes
Run(src, n) == IF n = 0 THEN <<>> ELSE <<[src |-> src, frames |-> n]>>

RECURSIVE FrameCount(_)
FrameCount(bytes) ==
  IF bytes = <<>> THEN 0 ELSE Head(bytes).frames + FrameCount(Tail(bytes))

RECURSIVE Concat(_)
Concat(chunks) ==
  IF chunks = <<>> THEN <<>> ELSE Head(chunks) \o Concat(Tail(chunks))

\* AudioSegment: raw data plus the frame rate it is read at
AudioSegment(data, rate) == [data |-> data, frame_rate |-> rate]

\* AudioSegment.silent(duration, frame_rate): int(frame_rate * duration/1000) frames
silent(duration, rate) == AudioSegment(Run(SILENCE, (rate * duration) \div 1000), rate)

\* duration_seconds * 1000 = frame_count / frame_rate * 1000, in ticks
\* (exact for the whole-kHz rates used here)
DurationTicks(seg) == (FrameCount(seg.data) * TICKS_PER_MS) \div (seg.frame_rate \div 1000)

\* ----------------------------------------------------------- AudioHelper
generate_pause(time) == silent(time, SILENT_FRAME_RATE).data

\* faulty variant: a pause after every item, the last one too
RECURSIVE insert_pauses_trailing(_, _)
insert_pauses_trailing(items, time) ==
  IF items = <<>> THEN <<>>
  ELSE <<items[1], generate_pause(time)>> \o insert_pauses_trailing(Tail(items), time)

RECURSIVE insert_pauses_loop(_, _, _)
insert_pauses_loop(items, time, ret) ==
  IF Len(items) = 1
    THEN Append(ret, items[1])
    ELSE insert_pauses_loop(Tail(items), time,
                            Append(Append(ret, items[1]), generate_pause(time)))

insert_pauses(items, time) ==
  IF items = <<>> THEN <<>> ELSE insert_pauses_loop(items, time, <<>>)

bytes2audio(audio_bytes) == AudioSegment(audio_bytes, FRAME_RATE)

\* ---------------------------------------------------------------- Chapter
DefaultTitles == <<"chapter-0.mp3", "chapter-1.mp3", "chapter-2.mp3",
                   "chapter-3.mp3", "chapter-4.mp3">>
TocTitles == {"", "Part 1", "Part 2"}
AllTitles == (TocTitles \ {""}) \cup {DefaultTitles[i] : i \in 1..Len(DefaultTitles)}

Chapter(id, title, paragraphs) ==
  [id |-> id,
   title |-> IF title # "" THEN title ELSE DefaultTitles[id + 1],
   paragraphs |-> paragraphs,
   start_time |-> None,
   end_time |-> None]

\* faulty variant: START and END exchanged
get_metadata_text_swapped(chapter) ==
  [START |-> chapter.end_time, END |-> chapter.start_time, title |-> chapter.title]

\* Chapter.get_metadata_text: the [CHAPTER] fragment, as its fields
get_metadata_text(chapter) ==
  [START |-> chapter.start_time, END |-> chapter.end_time, title |-> chapter.title]

\* -------------------------------------------------------------------- TTS
\* What the streaming service sends back for one text.
Responses == {"audio", "empty", "undecodable"}

\* AudioSegment.from_mp3 on the collected chunks: decodes, or raises
from_mp3_stream(text, response) ==
  IF response = "audio"
    THEN [raised |-> FALSE,
          seg |-> AudioSegment(Run(text, (FRAME_RATE * TTS_AUDIO_MS) \div 1000), FRAME_RATE)]
    ELSE [raised |-> TRUE, seg |-> AudioSegment(<<>>, FRAME_RATE)]

\* faulty variant: no try/except around the decode
generate_audio_noexcept(text, response) ==
  LET d == from_mp3_stream(text, response)
  IN [raised |-> d.raised, data |-> d.seg.data]

\* TTS.generate_audio: a failed decode is caught and replaced by silent(0)
generate_audio(text, response) ==
  LET d == from_mp3_stream(text, response)
  IN IF d.raised
       THEN [raised |-> FALSE, data |-> silent(0, SILENT_FRAME_RATE).data]
       ELSE [raised |-> FALSE, data |-> d.seg.data]

\* TTS.chapter_to_audio.  responses[1] answers the title, responses[k + 1]
\* the k-th paragraph.
chapter_to_audio(chapter, responses) ==
  LET n == Len(chapter.paragraphs)
      t == generate_audio(<<chapter.id, 0>>, responses[1])
      ps == [k \in 1..n |-> generate_audio(chapter.paragraphs[k], responses[k + 1])]
      title_bytes == IF chapter.title # ""
                       THEN t.data \o generate_pause(CHAPTER_TITLE_PAUSE_DURATION)
                       ELSE <<>>
      audio_chunks == insert_pauses([k \in 1..n |-> ps[k].data],
                                    PARAGRAPH_PAUSE_DURATION)
  IN [raised |-> (chapter.title # "" /\ t.raised) \/ (\E k \in 1..n : ps[k].raised),
      data |-> title_bytes \o Concat(audio_chunks),
      calls |-> (IF chapter.title # "" THEN 1 ELSE 0) + n]

\* ------------------------------------------------------------ file system
\* A per-chapter cache file is modelled by the AudioSegment that decoding it
\* gives; NoFile is the absent file.
NoFile == AudioSegment(<<>>, 0)

\* samples per MP3 frame at 24 kHz (MPEG-2 layer III)
Mp3FrameSamples == 1152 \div 2

\* AudioSegment.export(path) to MP3: lossy, the track is padded to whole MP3 frames
export_mp3(seg) ==
  LET n == FrameCount(seg.data)
      pad == (Mp3FrameSamples - (n % Mp3FrameSamples)) % Mp3FrameSamples
  IN AudioSegment(seg.data \o Run(PADDING, pad), seg.frame_rate)

\* AudioSegment.from_mp3(path)
from_mp3(file) == file

\* chapter_save_path: out_folder + "/chapters/" + title + ".mp3", one per title
chapter_save_path(chapter) == chapter.title

\* ------------------------------------------------------- cover extraction
\* Classes of book.metadata.cover:
\*   none, empty : no cover                       badpad : base64 with bad padding
\*   nonascii    : a str with non-ASCII characters (b64decode raises ValueError)
\*   notimage    : base64 of bytes that are no image
\*   webp        : an image of an unsupported format   png, jpeg : supported
EpubCovers == {"none", "png"}
AllCovers == {"none", "empty", "badpad", "nonascii", "notimage", "webp", "png", "jpeg"}
DEFAULT_COVER == "./default_cover.jpg"
\* os.path.join(out_folder, "cover." + image_format), written by image.save
CoverFile(image_format) == <<"cover", image_format>>

\* base64.b64decode(cover_base64): the exception it raises, or "ok"
b64decode(cover_base64) ==
  CASE cover_base64 = "badpad" -> "binascii.Error"
    [] cover_base64 = "nonascii" -> "ValueError"
    [] OTHER -> "ok"

\* Image.open(...).format.lower(), or the exception Image.open raises
image_format(cover_base64) ==
  CASE cover_base64 = "png" -> "png"
    [] cover_base64 = "jpeg" -> "jpeg"
    [] cover_base64 = "webp" -> "webp"
    [] OTHER -> "UnidentifiedImageError"

\* AudioBookGenerator._save_cover_image; save_ok: image.save succeeds
\* (otherwise it raises IOError)
_save_cover_image(cover_base64, save_ok) ==
  IF cover_base64 \in {"none", "empty"}
    THEN [raised |-> "none", path |-> <<DEFAULT_COVER>>]
  ELSE IF b64decode(cover_base64) = "binascii.Error"
    THEN [raised |-> "none", path |-> <<DEFAULT_COVER>>]
  ELSE IF b64decode(cover_base64) # "ok"
    THEN [raised |-> b64decode(cover_base64), path |-> <<>>]
  ELSE IF image_format(cover_base64) = "UnidentifiedImageError"
    THEN [raised |-> "none", path |-> <<DEFAULT_COVER>>]
  ELSE IF image_format(cover_base64) \notin {"jpeg", "png", "gif", "bmp", "tiff"}
    THEN [raised |-> "none", path |-> <<DEFAULT_COVER>>]
  ELSE IF ~save_ok
    THEN [raised |-> "none", path |-> <<DEFAULT_COVER>>]
  ELSE [raised |-> "none", path |-> CoverFile(image_format(cover_base64))]

\* faulty variant: subprocess.run(cmd, check=True)
run_muxer_checked(rc) == [raised |-> rc # 0, returncode |-> rc]

\* subprocess.run(cmd) without check=True: the exit status is returned, never raised
run_muxer(rc) == [raised |-> FALSE, returncode |-> rc]

\* ------------------------------------------------- AudioBookGenerator, main
\* faulty variant: start > end is not tested
invalid_range_no_order(start, end, n) == start < 0 \/ end > n - 1

\* the range test of __main__
invalid_range(start, end, n) == start < 0 \/ end > n - 1 \/ start > end

\* faulty variant: the chapter pause is left out of end_time
chapter_end_time_no_pause(time, chapter_audio) == time + DurationTicks(chapter_audio)

\* chapter.end_time = time + chapter_audio.duration_seconds * 1000 + CHAPTER_PAUSE_DURATION
chapter_end_time(time, chapter_audio) ==
  time + DurationTicks(chapter_audio) + Ms(CHAPTER_PAUSE_DURATION)

\* faulty variant: the chapter file is never written
save_chapter_nowhere(chapter_files, path, chapter_audio) == chapter_files

\* chapter_audio.export(chapter_save_path)
save_chapter(chapter_files, path, chapter_audio) ==
  [chapter_files EXCEPT ![path] = export_mp3(chapter_audio)]

\* ------------------------------------------------------------------ state
VARIABLES
  chapters,        \* book.chapters: sequence of Chapter records
  cover,           \* book.metadata.cover, as a class
  start_chapter,   \* AudioBookGenerator.start_chapter
  end_chapter,     \* AudioBookGenerator.end_chapter
  pc,              \* "prompt", "loop", "bind", "mux", "done", "exited", "aborted"
  idx,             \* 0-based index of the next chapter of the loop
  time,            \* running cumulative time of _generate
  book_audio,      \* the pieces appended to the combined track, in order
  book_ffmetadata, \* [CHAPTER] fragments appended after the book header
  files,           \* the book's output folder
  cover_path,      \* what _save_cover_image returned
  raised,          \* the exception that ended the run, or "none"
  exit_status,     \* process exit status, None while running
  mux,             \* muxer invocations of this run and the last exit status
  run,             \* number of the current run of the program
  trace,           \* per-run record of what was invoked
  items, pause_time, ret, items_after   \* a call of insert_pauses on its own

vars == <<chapters, cover, start_chapter, end_chapter, pc, idx, time, book_audio,
          book_ffmetadata, files, cover_path, raised, exit_status, mux, run,
          trace, items, pause_time, ret, items_after>>

helper_vars == <<items, pause_time, ret, items_after>>

\* Book.extract_chapters: chapter idx gets id idx, the TOC title and its paragraphs
Paragraphs(id, n) == [k \in 1..n |-> <<id, k>>]

\* "Part 2" is used only after "Part 1": the two names are interchangeable
FirstUse(titles) ==
  \A i \in DOMAIN titles :
    titles[i] = "Part 2" => \E j \in 1..(i - 1) : titles[j] = "Part 1"

\* the books: 1..MaxChapters TOC titles, and the number of paragraphs per chapter
Books ==
  {titles \in UNION {[1..n -> TocTitles] : n \in 1..MaxChapters} : FirstUse(titles)}
    \X (0..MaxParagraphs)

BookChapters(b) ==
  [i \in 1..Len(b[1]) |-> Chapter(i - 1, b[1][i], Paragraphs(i - 1, b[2]))]

\* the output folder: the chapters/ cache and which of the other files exist
EmptyFiles ==
  [chapters |-> [t \in AllTitles |-> NoFile],
   m4a |-> FALSE, ffmetadata |-> FALSE]

NoMux == [calls |-> 0, returncode |-> None]
NoRange == <<None, None>>

\* what one run has read and invoked so far
NewTrace(fs, last, failed) ==
  [failures |-> failed,        \* undecodable responses since the first run
   input |-> NoRange,          \* the range typed at the prompts
   errors |-> {},              \* messages given to logging.error
   tts_log |-> <<>>,           \* chapter ids passed to TTS.chapter_to_audio
   synth_calls |-> 0,          \* TTS.generate_audio invocations
   cache_writes |-> 0,         \* per-chapter files exported
   hits |-> {},                \* chapter ids served from the cache
   silenced |-> {},            \* texts whose response could not be decoded
   written |-> {},             \* output files written by this run
   cache_at_start |-> fs.chapters,
   last_done |-> last]         \* range of the previous, completed run

InitPipeline(books, covers, at) ==
  /\ \E b \in books : chapters = BookChapters(b)
  /\ cover \in covers
  /\ start_chapter = 0
  /\ end_chapter = Len(chapters) - 1
  /\ pc = at
  /\ idx = 0
  /\ time = 0
  /\ book_audio = <<>>
  /\ book_ffmetadata = <<>>
  /\ files = EmptyFiles
  /\ cover_path = <<>>
  /\ raised = "none"
  /\ exit_status = None
  /\ mux = NoMux
  /\ run = 1
  /\ trace = NewTrace(EmptyFiles, NoRange, 0)

InitHelper ==
  /\ items = <<>>
  /\ pause_time = 0
  /\ ret = <<>>
  /\ items_after = <<>>

Init == InitPipeline(Books, EpubCovers, "prompt") /\ InitHelper

\* ------------------------------------------------------------- operations
\* __main__: the prompts for the range, its validation, then generate()
Prompt(s, e) ==
  /\ pc = "prompt"
  /\ IF invalid_range(s, e, Len(chapters))
       THEN /\ pc' = "exited"
            /\ exit_status' = 1
            /\ trace' = [trace EXCEPT !.input = <<s, e>>,
                                      !.errors = @ \cup {"Invalid chapter range. Exiting."}]
            /\ UNCHANGED <<start_chapter, end_chapter, idx>>
       ELSE /\ pc' = "loop"
            /\ start_chapter' = s
            /\ end_chapter' = e
            /\ idx' = s
            /\ trace' = [trace EXCEPT !.input = <<s, e>>]
            /\ UNCHANGED exit_status
  /\ UNCHANGED <<chapters, cover, time, book_audio, book_ffmetadata, files,
                 cover_path, raised, mux, run, helper_vars>>

Failed(responses) == {k \in DOMAIN responses : responses[k] # "audio"}

\* one iteration of the loop of _generate
ProcessChapter(responses) ==
  /\ pc = "loop"
  /\ idx <= end_chapter
  /\ idx + 1 \in DOMAIN chapters
  /\ LET chapter == chapters[idx + 1]
         path == chapter_save_path(chapter)
         hit == files.chapters[path] # NoFile
         synth == chapter_to_audio(chapter, responses)
         chapter_audio == IF hit THEN from_mp3(files.chapters[path])
                                 ELSE bytes2audio(synth.data)
         end_time == chapter_end_time(time, chapter_audio)
         timed == [chapter EXCEPT !.start_time = time, !.end_time = end_time]
         called == [trace EXCEPT
                      !.failures = @ + Cardinality(Failed(responses)),
                      !.tts_log = Append(@, chapter.id),
                      !.synth_calls = @ + synth.calls,
                      !.silenced = @ \cup {<<chapter.id, k - 1>> : k \in Failed(responses)}]
     IN /\ Len(responses) = 1 + Len(chapter.paragraphs)
        /\ hit => Failed(responses) = {}
        /\ trace.failures + Cardinality(Failed(responses)) <= MaxFailures
        /\ IF ~hit /\ synth.raised
             THEN /\ pc' = "aborted"
                  /\ raised' = "CouldntDecodeError"
                  /\ exit_status' = 0
                  /\ trace' = [called EXCEPT !.errors = @ \cup {"An error occurred"}]
                  /\ UNCHANGED <<chapters, idx, time, book_audio, book_ffmetadata,
                                 files>>
             ELSE /\ files' = IF hit THEN files
                              ELSE [files EXCEPT !.chapters =
                                      save_chapter(@, path, chapter_audio)]
                  /\ trace' = IF hit
                       THEN [trace EXCEPT !.hits = @ \cup {chapter.id}]
                       ELSE [called EXCEPT !.cache_writes = @ + 1]
                  /\ book_audio' = book_audio \o
                       <<chapter_audio.data,
                         silent(CHAPTER_PAUSE_DURATION, FRAME_RATE).data>>
                  /\ chapters' = [chapters EXCEPT ![idx + 1] = timed]
                  /\ time' = end_time
                  /\ book_ffmetadata' = Append(book_ffmetadata, get_metadata_text(timed))
                  /\ idx' = idx + 1
                  /\ UNCHANGED <<pc, raised, exit_status>>
  /\ UNCHANGED <<cover, start_chapter, end_chapter, cover_path, mux, run, helper_vars>>

\* _generate after the loop: export of the combined track
ExportTrack ==
  /\ pc = "loop"
  /\ ~(idx <= end_chapter /\ idx + 1 \in DOMAIN chapters)
  /\ files' = [files EXCEPT !.m4a = TRUE]
  /\ trace' = [trace EXCEPT !.written = @ \cup {"m4a"}]
  /\ pc' = "bind"
  /\ UNCHANGED <<chapters, cover, start_chapter, end_chapter, idx, time, book_audio,
                 book_ffmetadata, cover_path, raised, exit_status, mux, run,
                 helper_vars>>

\* _bind_metadata up to the metadata file: the cover, then ffmetadata.txt
WriteMetadata(save_ok) ==
  /\ pc = "bind"
  /\ LET c == _save_cover_image(cover, save_ok)
     IN IF c.raised # "none"
          THEN /\ pc' = "aborted"
               /\ raised' = c.raised
               /\ exit_status' = 0
               /\ trace' = [trace EXCEPT !.errors = @ \cup {"An error occurred"}]
               /\ UNCHANGED <<files, cover_path>>
          ELSE /\ pc' = "mux"
               /\ cover_path' = c.path
               /\ files' = [files EXCEPT !.ffmetadata = TRUE]
               /\ trace' = [trace EXCEPT
                    !.written = @ \cup {"ffmetadata"},
                    !.errors = IF c.path = <<DEFAULT_COVER>>
                                 THEN @ \cup {"cover"} ELSE @]
               /\ UNCHANGED <<raised, exit_status>>
  /\ UNCHANGED <<chapters, cover, start_chapter, end_chapter, idx, time, book_audio,
                 book_ffmetadata, mux, run, helper_vars>>

\* _bind_metadata: the muxer invocation; rc is the muxer's exit status
RunMuxer(rc) ==
  /\ pc = "mux"
  /\ LET r == run_muxer(rc)
     IN /\ mux' = [calls |-> mux.calls + 1, returncode |-> r.returncode]
        /\ IF r.raised
             THEN /\ pc' = "aborted"
                  /\ raised' = "CalledProcessError"
                  /\ trace' = [trace EXCEPT !.errors = @ \cup {"An error occurred"}]
             ELSE /\ pc' = "done"
                  /\ UNCHANGED <<raised, trace>>
        /\ exit_status' = 0
  /\ UNCHANGED <<chapters, cover, start_chapter, end_chapter, idx, time, book_audio,
                 book_ffmetadata, files, cover_path, run, helper_vars>>

\* After a completed run the program is started again on the same book and
\* output folder: a new process, so everything but the files on disk is
\* constructed anew.
Rerun ==
  /\ pc = "done"
  /\ run = 1
  /\ run' = run + 1
  /\ chapters' = [i \in DOMAIN chapters |->
                    Chapter(chapters[i].id, chapters[i].title, chapters[i].paragraphs)]
  /\ start_chapter' = 0
  /\ end_chapter' = Len(chapters) - 1
  /\ pc' = "prompt"
  /\ idx' = 0
  /\ time' = 0
  /\ book_audio' = <<>>
  /\ book_ffmetadata' = <<>>
  /\ cover_path' = <<>>
  /\ raised' = "none"
  /\ exit_status' = None
  /\ mux' = NoMux
  /\ trace' = NewTrace(files, <<start_chapter, end_chapter>>, trace.failures)
  /\ UNCHANGED <<cover, files, helper_vars>>

RangeInputs == -1..MaxChapters

Next ==
  \/ \E s \in RangeInputs, e \in RangeInputs : Prompt(s, e)
  \/ \E n \in 1..(1 + MaxParagraphs) : \E responses \in [1..n -> Responses] :
       ProcessChapter(responses)
  \/ ExportTrack
  \/ \E save_ok \in BOOLEAN : WriteMetadata(save_ok)
  \/ \E rc \in {0, 1} : RunMuxer(rc)
  \/ Rerun

Spec == Init /\ [][Next]_vars

\* the same program given a book whose cover field holds anything at all
InitCover == InitPipeline(Books, AllCovers, "prompt") /\ InitHelper

SpecCover == InitCover /\ [][Next]_vars

\* ------------------------------------------- insert_pauses called on its own
Buffers == {<<>>, Run(<<0, 1>>, 1), Run(<<0, 2>>, 2)}
PauseTimes == {0, 1, PARAGRAPH_PAUSE_DURATION, CHAPTER_TITLE_PAUSE_DURATION}

InitPauses ==
  /\ InitPipeline({<<<<"Part 1">>, 0>>}, {"none"}, "call")
  /\ items \in UNION {[1..n -> Buffers] : n \in 0..MaxItems}
  /\ pause_time \in PauseTimes
  /\ ret = <<>>
  /\ items_after = items

CallInsertPauses ==
  /\ pc = "call"
  /\ ret' = insert_pauses(items, pause_time)
  /\ items_after' = items
  /\ pc' = "returned"
  /\ UNCHANGED <<chapters, cover, start_chapter, end_chapter, idx, time, book_audio,
                 book_ffmetadata, files, cover_path, raised, exit_status, mux, run,
                 trace, items, pause_time>>

NextPauses == CallInsertPauses

SpecPauses == InitPauses /\ [][NextPauses]_vars

\* ================================================================== claims
InRun == pc \in {"loop", "bind", "mux", "done"}

\* 0-based indices of the chapters the loop of this run has processed
Processed == IF InRun THEN start_chapter..(idx - 1) ELSE {}

\* the audio appended to the combined track for chapter index i
AppendedAudio(i) == book_audio[2 * (i - start_chapter) + 1]

Sources(bytes) == {bytes[k].src : k \in DOMAIN bytes}

\* C1: in every run, whatever the mix of cache hits and misses, the first
\* processed chapter starts at 0, every processed chapter ends at its start
\* plus the duration of the audio appended for it plus the 2000 ms chapter
\* pause, and every next chapter starts where the previous one ended.
C1_CumulativeTimestamps ==
  InRun =>
    /\ idx > start_chapter => chapters[start_chapter + 1].start_time = 0
    /\ \A i \in Processed :
         /\ chapters[i + 1].end_time =
              chapters[i + 1].start_time
                + (FrameCount(AppendedAudio(i)) * TICKS_PER_MS) \div (FRAME_RATE \div 1000)
                + CHAPTER_PAUSE_DURATION * TICKS_PER_MS
         /\ (i + 1) \in Processed =>
              chapters[i + 2].start_time = chapters[i + 1].end_time

C1_Witness ==
  /\ pc = "done"
  /\ idx - start_chapter >= 2
  /\ trace.hits # {}
  /\ trace.tts_log # <<>>
  /\ chapters[idx].start_time > 0

\* C2: a second run over the range of a completed first run finds every
\* chapter in the cache: it invokes neither chapter_to_audio nor
\* generate_audio, and it leaves every per-chapter file as it was.
C2_CacheIdempotence ==
  (run = 2 /\ InRun /\ <<start_chapter, end_chapter>> = trace.last_done) =>
    /\ trace.tts_log = <<>>
    /\ trace.synth_calls = 0
    /\ trace.cache_writes = 0
    /\ files.chapters = trace.cache_at_start
    /\ \A i \in Processed : chapters[i + 1].id \in trace.hits

C2_Witness ==
  /\ run = 2
  /\ pc = "done"
  /\ <<start_chapter, end_chapter>> = trace.last_done
  /\ end_chapter > start_chapter
  /\ Cardinality(trace.hits) >= 2

\* C3: once bounds with start < 0, end beyond the last index or start > end
\* have been typed, the program has logged an error and exited with a
\* non-zero status, and no synthesizer call or cache write has happened.
C3_InvalidRangeExits ==
  LET s == trace.input[1]
      e == trace.input[2]
  IN (pc # "prompt" /\ (s < 0 \/ e > Len(chapters) - 1 \/ s > e)) =>
       /\ pc = "exited"
       /\ exit_status # None
       /\ exit_status # 0
       /\ "Invalid chapter range. Exiting." \in trace.errors
       /\ trace.tts_log = <<>>
       /\ trace.synth_calls = 0
       /\ trace.cache_writes = 0
       /\ mux.calls = 0

C3_Witness ==
  /\ pc = "exited"
  /\ Len(chapters) = 2
  /\ trace.input[1] > trace.input[2]
  /\ trace.input[1] >= 0
  /\ trace.input[2] <= Len(chapters) - 1

C6_CoverNeverRaises ==
  pc \in {"mux", "done", "aborted"} =>
    /\ raised = "none"
    /\ pc # "aborted"
    /\ cover \in {"none", "empty", "badpad", "nonascii", "notimage", "webp"} =>
         cover_path = <<DEFAULT_COVER>>
    /\ cover_path # <<DEFAULT_COVER>> =>
         (cover \in {"png", "jpeg"} /\ cover_path = <<"cover", cover>>)

EndToEndScenario ==
  /\ run = 1
  /\ pc = "done"
  /\ Len(chapters) = 2
  /\ chapters[1].title = "Part 1" /\ chapters[2].title = "Part 2"
  /\ Len(chapters[1].paragraphs) = 2 /\ Len(chapters[2].paragraphs) = 2
  /\ start_chapter = 0 /\ end_chapter = 1
  /\ trace.failures = 0

\* C8 (as stated): in the end-to-end scenario chapter 0 starts at 0 and ends
\* at 900 + 2 x 1000 + 500 + 2000 ms, and chapter 1 starts where chapter 0 ends.
C8_EndToEndTiming ==
  EndToEndScenario =>
    /\ chapters[1].start_time = 0
    /\ chapters[1].end_time =
         (CHAPTER_TITLE_PAUSE_DURATION + 2 * TTS_AUDIO_MS + PARAGRAPH_PAUSE_DURATION
            + CHAPTER_PAUSE_DURATION) * TICKS_PER_MS
    /\ chapters[2].start_time = chapters[1].end_time

\* C9: chapters are processed one at a time in range order: at every point of
\* a run exactly the chapters before idx are timed, have their audio appended
\* and have their [CHAPTER] fragment appended, in order and with their final
\* START and END; the others have neither time set; the metadata handed to the
\* muxer holds one fragment per chapter of the range.
C9_SequentialChapters ==
  /\ \A i \in DOMAIN chapters :
       /\ (chapters[i].start_time = None) <=> (chapters[i].end_time = None)
       /\ (i - 1) \notin Processed => chapters[i].start_time = None
       /\ (i - 1) \in Processed => chapters[i].start_time # None
  /\ InRun =>
       /\ start_chapter <= idx /\ idx <= end_chapter + 1
       /\ Len(book_ffmetadata) = idx - start_chapter
       /\ Len(book_audio) = 2 * (idx - start_chapter)
       /\ \A k \in 1..Len(book_ffmetadata) :
            /\ book_ffmetadata[k].title = chapters[start_chapter + k].title
            /\ book_ffmetadata[k].START = chapters[start_chapter + k].start_time
            /\ book_ffmetadata[k].END = chapters[start_chapter + k].end_time
            /\ book_ffmetadata[k].START # None
            /\ book_ffmetadata[k].END > book_ffmetadata[k].START
  /\ pc \in {"bind", "mux", "done"} =>
       Len(book_ffmetadata) = end_chapter - start_chapter + 1

C9_Witness ==
  /\ pc = "mux"
  /\ start_chapter = 1
  /\ end_chapter = 1
  /\ Len(chapters) = 2
  /\ Len(book_ffmetadata) = 1
  /\ chapters[1].start_time = None

\* C10 (as stated): in a run that starts with an empty cache, chapter_to_audio
\* is invoked once per processed chapter, in order, and the audio appended for
\* a chapter is synthesized from that chapter's own title and paragraphs.
C10_EveryChapterSynthesized ==
  (run = 1 /\ InRun) =>
    /\ trace.tts_log = [k \in 1..(idx - start_chapter) |-> chapters[start_chapter + k].id]
    /\ \A i \in Processed :
         \A src \in Sources(AppendedAudio(i)) :
           src = SILENCE \/ src[1] = chapters[i + 1].id

====
